---- MODULE Spec2Model ----
(***************************************************************************)
(* Model of terraform-provider-pterodactyl: the one-of-N identifier lookup *)
(* of the node, location and user data sources (Read), and the allocation  *)
(* reconciliation of the node resource (Update).                           *)
(*                                                                         *)
(* The panel REST client (pterodactyl-client-go) is the environment: each  *)
(* client call either fails with a message or answers from the panel's     *)
(* records.                                                                *)
(***************************************************************************)
EXTENDS Integers, Sequences, FiniteSets

\* ------------------------------------------------------------------ bounds
\* largest primary identifier a panel record carries (identifiers are 0..MaxID)
MaxID == 2
\* most records the panel lists for one entity type
MaxRecords == 2

IDs == 0 .. MaxID
\* attribute values found on panel records
Strs == {"a", "b"}

VARIABLES
    entity,     \* entity type the data source under examination reads
    records,    \* the panel's listing of that entity type, in listing order
    config,     \* req.Config: the configuration of the data source block
    state,      \* resp.State of the last handler invocation
    diags,      \* resp.Diagnostics of the last handler invocation
    calls,      \* client calls issued by the last handler invocation, in order
    allocations,     \* the panel's allocations of the managed node, in listing order
    nextID,          \* identifier the panel gives the next allocation it creates
    nodeName,        \* the panel's name attribute of the managed node
    plan,            \* req.Plan of nodeResource.Update
    pc,              \* position of nodeResource.Update
    nodeAllocations, \* local nodeAllocations of Update
    idx,             \* position of the running range loop of Update
    rerun,           \* the running Update directly follows a successful Update of the same plan
    env,             \* the process environment the provider is started in
    providerData     \* resp.DataSourceData / resp.ResourceData of provider Configure

dataSourceVars == <<entity, records, config>>
respVars == <<state, diags, calls>>
panelVars == <<allocations, nextID, nodeName>>
updateVars == <<plan, pc, nodeAllocations, idx, rerun>>
providerVars == <<env, providerData>>
vars == <<entity, records, config, state, diags, calls,
          allocations, nextID, nodeName, plan, pc, nodeAllocations, idx, rerun,
          env, providerData>>

\* ------------------------------------------------- framework attribute values
\* types.Int32 / types.Int64 / types.String: null, unknown or a known value
Null == [st |-> "null"]
Unknown == [st |-> "unknown"]
Int32Value(v) == [st |-> "known", v |-> v]
StringValue(v) == [st |-> "known", v |-> v]

\* variant: unknown counts as null
IsNullOrUnknown(x) == x.st \in {"null", "unknown"}
IsNull(x) == x.st = "null"
IsUnknown(x) == x.st = "unknown"
\* ValueInt32 / ValueInt64: the known value, or 0 for null and unknown
ValueInt32(x) == IF x.st = "known" THEN x.v ELSE 0
\* ValueString: the known value, or "" for null and unknown
ValueString(x) == IF x.st = "known" THEN x.v ELSE ""

\* ----------------------------------------------------------- small helpers
Min(S) == CHOOSE m \in S : \A n \in S : m <= n
Max(S) == CHOOSE m \in S : \A n \in S : m >= n
\* sequences over S of length at most n whose elements have distinct ids
RECURSIVE DistinctIdSeqs(_, _)
DistinctIdSeqs(S, n) ==
    IF n = 0 THEN {<<>>}
    ELSE LET shorter == DistinctIdSeqs(S, n - 1)
         IN shorter \cup
            {Append(s, r) : s \in {t \in shorter : Len(t) = n - 1}, r \in S}
DistinctIds(s) == \A i, j \in 1 .. Len(s) : i # j => s[i].id # s[j].id
Listings(S) == {s \in DistinctIdSeqs(S, MaxRecords) : DistinctIds(s)}

\* ------------------------------------------------------------ panel records
NodeRecords == [id : IDs, uuid : Strs, name : Strs]
LocationRecords == [id : IDs, short : Strs, long : Strs]
UserRecords == [id : IDs, username : Strs, email : Strs, external_id : Strs]

\* Go zero values of pterodactyl.Node / Location / User
ZeroNode == [id |-> 0, uuid |-> "", name |-> ""]
ZeroLocation == [id |-> 0, short |-> "", long |-> ""]
ZeroUser == [id |-> 0, username |-> "", email |-> "", external_id |-> ""]

\* ------------------------------------------------------------ client calls
NoErr == "nil"
BackendFailure == "panel request failed"
NotFoundFailure == "panel answered 404"

Ok(v) == [err |-> NoErr, val |-> v]
Err(msg, zero) == [err |-> msg, val |-> zero]

\* client.GetNode / GetLocation / GetUser: one record by primary id
GetByID(recs, id, fail, zero) ==
    IF fail THEN Err(BackendFailure, zero)
    ELSE LET I == {i \in 1 .. Len(recs) : recs[i].id = id}
         IN IF I = {} THEN Err(NotFoundFailure, zero) ELSE Ok(recs[Min(I)])

\* client.GetNodes / GetLocations: the complete listing (nil on failure)
GetAll(recs, fail) ==
    IF fail THEN Err(BackendFailure, <<>>) ELSE Ok(recs)

\* client.GetUserUsername / GetUserEmail / GetUserExternalID
GetUserBy(recs, field, value, fail) ==
    IF fail THEN Err(BackendFailure, ZeroUser)
    ELSE LET I == {i \in 1 .. Len(recs) : recs[i][field] = value}
         IN IF I = {} THEN Err(NotFoundFailure, ZeroUser) ELSE Ok(recs[Min(I)])

\* one entry of the call log: the client method, its argument, the error it returned
Call(op, arg, err) == [op |-> op, arg |-> arg, err |-> err]
Diag(summary, detail) == [summary |-> summary, detail |-> detail]

\* resp.State before any Set / after resp.State.Set(value)
Unset == [set |-> FALSE]
StateSet(value) == [set |-> TRUE, value |-> value]

\* an environment without the provider's variables; no client handed out
NoEnv == [PTERODACTYL_HOST |-> "", PTERODACTYL_API_KEY |-> ""]
NoClient == [set |-> FALSE]

\* outcome of one handler invocation
Outcome(c, d, s) == [calls |-> c, diags |-> d, state |-> s]

\* ===================================================== nodeDataSource.Read
\* mutant: the scan starts at the second listed node
NodeFirstMatchSkipFirst(nodes, field, value) ==
    LET I == {i \in 2 .. Len(nodes) : nodes[i][field] = value}
    IN IF I = {} THEN ZeroNode ELSE nodes[Min(I)]

\* mutant: the assignment sits outside the comparison, so a scan without a
\* match leaves the last listed node
NodeFirstMatchOrLast(nodes, field, value) ==
    LET I == {i \in 1 .. Len(nodes) : nodes[i][field] = value}
    IN IF I # {} THEN nodes[Min(I)]
       ELSE IF nodes = <<>> THEN ZeroNode ELSE nodes[Len(nodes)]

\* for _, n := range nodes { if n.<field> == value { node = n; break } }
\* (node stays the zero value when nothing matches)
NodeFirstMatch(nodes, field, value) ==
    LET I == {i \in 1 .. Len(nodes) : nodes[i][field] = value}
    IN IF I = {} THEN ZeroNode ELSE nodes[Min(I)]

\* "Map response body to model"
NodeModel(node) ==
    [id |-> Int32Value(node.id), uuid |-> StringValue(node.uuid),
     name |-> StringValue(node.name)]

\* branch !state.ID.IsNull()
NodeReadByID(cfg, recs, fail) ==
    LET r == GetByID(recs, ValueInt32(cfg.id), fail, ZeroNode)
        c == <<Call("GetNode", ValueInt32(cfg.id), r.err)>>
    IN IF r.err # NoErr
       THEN Outcome(c, <<Diag("Unable to Read Pterodactyl Node", r.err)>>, Unset)
       ELSE Outcome(c, <<>>, StateSet(NodeModel(r.val)))

\* mutant: a failed listing is requested a second time
NodeReadListingRetry(recs, field, value, fail) ==
    LET r == GetAll(recs, fail)
        c == IF r.err # NoErr
             THEN <<Call("GetNodes", "", r.err), Call("GetNodes", "", r.err)>>
             ELSE <<Call("GetNodes", "", r.err)>>
    IN IF r.err # NoErr
       THEN Outcome(c, <<Diag("Unable to Read Pterodactyl Node", r.err)>>, Unset)
       ELSE Outcome(c, <<>>, StateSet(NodeModel(NodeFirstMatch(r.val, field, value))))

\* branches !state.UUID.IsNull() and !state.Name.IsNull()
NodeReadListing(recs, field, value, fail) ==
    LET r == GetAll(recs, fail)
        c == <<Call("GetNodes", "", r.err)>>
    IN IF r.err # NoErr
       THEN Outcome(c, <<Diag("Unable to Read Pterodactyl Node", r.err)>>, Unset)
       ELSE Outcome(c, <<>>, StateSet(NodeModel(NodeFirstMatch(r.val, field, value))))

\* mutant: the final else branch lacks its return and the zero node is written
NodeReadMissingNoReturn ==
    Outcome(<<>>,
            <<Diag("Missing Attribute", "One of 'id', 'uuid' or 'name' must be specified.")>>,
            StateSet(NodeModel(ZeroNode)))

\* final else branch: AddError and return
NodeReadMissing ==
    Outcome(<<>>,
            <<Diag("Missing Attribute", "One of 'id', 'uuid' or 'name' must be specified.")>>,
            Unset)

\* mutant: the name branch is examined before the id branch
NodeReadNameFirst(cfg, recs, fail) ==
    IF ~IsNull(cfg.name)
    THEN NodeReadListing(recs, "name", ValueString(cfg.name), fail)
    ELSE IF ~IsNull(cfg.id) THEN NodeReadByID(cfg, recs, fail)
    ELSE IF ~IsNull(cfg.uuid)
    THEN NodeReadListing(recs, "uuid", ValueString(cfg.uuid), fail)
    ELSE NodeReadMissing

NodeRead(cfg, recs, fail) ==
    IF ~IsNull(cfg.id) THEN NodeReadByID(cfg, recs, fail)
    ELSE IF ~IsNull(cfg.uuid)
    THEN NodeReadListing(recs, "uuid", ValueString(cfg.uuid), fail)
    ELSE IF ~IsNull(cfg.name)
    THEN NodeReadListing(recs, "name", ValueString(cfg.name), fail)
    ELSE NodeReadMissing

\* ================================================= locationDataSource.Read
\* mutant: the loop lacks its break, so the last match is kept
LocationLastMatch(locations, field, value) ==
    LET I == {i \in 1 .. Len(locations) : locations[i][field] = value}
    IN IF I = {} THEN ZeroLocation ELSE locations[Max(I)]

\* for _, loc := range locations { if loc.<field> != value { continue }; location = loc; break }
LocationFirstMatch(locations, field, value) ==
    LET I == {i \in 1 .. Len(locations) : locations[i][field] = value}
    IN IF I = {} THEN ZeroLocation ELSE locations[Min(I)]

LocationModel(location) ==
    [id |-> Int32Value(location.id), short |-> StringValue(location.short),
     long |-> StringValue(location.long)]

\* branch !state.ID.IsNull()
LocationReadByID(cfg, recs, fail) ==
    LET r == GetByID(recs, ValueInt32(cfg.id), fail, ZeroLocation)
        c == <<Call("GetLocation", ValueInt32(cfg.id), r.err)>>
    IN IF r.err # NoErr
       THEN Outcome(c, <<Diag("Unable to Read Pterodactyl Location", r.err)>>, Unset)
       ELSE Outcome(c, <<>>, StateSet(LocationModel(r.val)))

\* branches !state.Short.IsNull() and !state.Long.IsNull(): the error of
\* GetLocations is added to the diagnostics but the branch does not return,
\* so the nil listing is scanned and the mapping and resp.State.Set still run
LocationReadListing(recs, field, value, fail) ==
    LET r == GetAll(recs, fail)
        c == <<Call("GetLocations", "", r.err)>>
        d == IF r.err # NoErr
             THEN <<Diag("Unable to Read Pterodactyl Locations", r.err)>>
             ELSE <<>>
    IN Outcome(c, d, StateSet(LocationModel(LocationFirstMatch(r.val, field, value))))

\* final else branch: AddError and return
LocationReadMissing ==
    Outcome(<<>>,
            <<Diag("Missing Attribute", "One of 'id', 'short' or 'long' must be specified.")>>,
            Unset)

\* mutant: the long branch is examined before the short branch
LocationReadLongFirst(cfg, recs, fail) ==
    IF ~IsNull(cfg.id) THEN LocationReadByID(cfg, recs, fail)
    ELSE IF ~IsNull(cfg.long)
    THEN LocationReadListing(recs, "long", ValueString(cfg.long), fail)
    ELSE IF ~IsNull(cfg.short)
    THEN LocationReadListing(recs, "short", ValueString(cfg.short), fail)
    ELSE LocationReadMissing

LocationRead(cfg, recs, fail) ==
    IF ~IsNull(cfg.id) THEN LocationReadByID(cfg, recs, fail)
    ELSE IF ~IsNull(cfg.short)
    THEN LocationReadListing(recs, "short", ValueString(cfg.short), fail)
    ELSE IF ~IsNull(cfg.long)
    THEN LocationReadListing(recs, "long", ValueString(cfg.long), fail)
    ELSE LocationReadMissing

\* ===================================================== userDataSource.Read
UserModel(user) ==
    [id |-> Int32Value(user.id), username |-> StringValue(user.username),
     email |-> StringValue(user.email),
     external_id |-> StringValue(user.external_id)]

\* "if err != nil { AddError; return }" and the mapping after the branches
UserReadFinish(c, r) ==
    IF r.err # NoErr
    THEN Outcome(c, <<Diag("Unable to Read Pterodactyl User", r.err)>>, Unset)
    ELSE Outcome(c, <<>>, StateSet(UserModel(r.val)))

\* final else branch: AddError and return
UserReadMissing ==
    Outcome(<<>>,
            <<Diag("Missing Attribute", "One of 'id', 'username', or 'email' must be specified.")>>,
            Unset)

UserRead(cfg, recs, fail) ==
    IF ~IsNull(cfg.id)
    THEN LET r == GetByID(recs, ValueInt32(cfg.id), fail, ZeroUser)
         IN UserReadFinish(<<Call("GetUser", ValueInt32(cfg.id), r.err)>>, r)
    ELSE IF ~IsNull(cfg.username)
    THEN LET r == GetUserBy(recs, "username", ValueString(cfg.username), fail)
         IN UserReadFinish(<<Call("GetUserUsername", ValueString(cfg.username), r.err)>>, r)
    ELSE IF ~IsNull(cfg.email)
    THEN LET r == GetUserBy(recs, "email", ValueString(cfg.email), fail)
         IN UserReadFinish(<<Call("GetUserEmail", ValueString(cfg.email), r.err)>>, r)
    ELSE IF ~IsNull(cfg.external_id)
    THEN LET r == GetUserBy(recs, "external_id", ValueString(cfg.external_id), fail)
         IN UserReadFinish(<<Call("GetUserExternalID", ValueString(cfg.external_id), r.err)>>, r)
    ELSE UserReadMissing

\* ------------------------------------------------ lookup requests (req.Config)
\* a data source is read only once its configuration is wholly known, so an
\* attribute is null or known; "" and 0 are known values a configuration can set
IdAttr == {Null} \cup {Int32Value(i) : i \in IDs}
StrAttr == {Null} \cup {StringValue(s) : s \in Strs \cup {""}}

NodeConfigs == [id : IdAttr, uuid : StrAttr, name : StrAttr]
LocationConfigs == [id : IdAttr, short : StrAttr, long : StrAttr]
UserConfigs == [id : IdAttr, username : StrAttr, email : StrAttr, external_id : StrAttr]

Entities == {"node", "location", "user"}
RecordsOf(e) ==
    IF e = "node" THEN NodeRecords
    ELSE IF e = "location" THEN LocationRecords ELSE UserRecords

ConfigsOf(e) ==
    IF e = "node" THEN NodeConfigs
    ELSE IF e = "location" THEN LocationConfigs ELSE UserConfigs

\* the panel keeps username, email and external_id unique among its users
UniqueUsers(s) ==
    \A i, j \in 1 .. Len(s) :
        i # j => /\ s[i].username # s[j].username
                 /\ s[i].email # s[j].email
                 /\ s[i].external_id # s[j].external_id

ListingsOf(e) ==
    IF e = "user" THEN {s \in Listings(UserRecords) : UniqueUsers(s)}
    ELSE Listings(RecordsOf(e))

\* no Update is planned
NoPlan == [id |-> Null, name |-> Null, allocations |-> <<>>]

\* a data source block of one entity type with its configuration, a panel
\* holding some records of that type, and no Read performed yet
InitResolve ==
    /\ entity \in Entities
    /\ records \in ListingsOf(entity)
    /\ config \in ConfigsOf(entity)
    /\ state = Unset
    /\ diags = <<>>
    /\ calls = <<>>
    /\ allocations = <<>>
    /\ nextID = MaxID + 1
    /\ nodeName = "a"
    /\ plan = NoPlan
    /\ pc = "idle"
    /\ nodeAllocations = <<>>
    /\ idx = 0
    /\ rerun = FALSE
    /\ env = NoEnv
    /\ providerData = NoClient

\* one Read of the data source: a fresh response holding the handler's outcome
Respond(o) ==
    /\ state' = o.state
    /\ diags' = o.diags
    /\ calls' = o.calls

NodeDataSourceRead ==
    /\ entity = "node"
    /\ \E fail \in BOOLEAN : Respond(NodeRead(config, records, fail))
    /\ UNCHANGED <<providerVars, dataSourceVars, panelVars, updateVars>>

LocationDataSourceRead ==
    /\ entity = "location"
    /\ \E fail \in BOOLEAN : Respond(LocationRead(config, records, fail))
    /\ UNCHANGED <<providerVars, dataSourceVars, panelVars, updateVars>>

UserDataSourceRead ==
    /\ entity = "user"
    /\ \E fail \in BOOLEAN : Respond(UserRead(config, records, fail))
    /\ UNCHANGED <<providerVars, dataSourceVars, panelVars, updateVars>>

NextResolve ==
    \/ NodeDataSourceRead
    \/ LocationDataSourceRead
    \/ UserDataSourceRead

SpecResolve == InitResolve /\ [][NextResolve]_vars

\* ==================================================== properties of Resolve
\* a Read has run: every outcome leaves a diagnostic or a written state
Responded == calls # <<>> \/ diags # <<>> \/ state.set

\* the identifying attributes of each entity type, in the order Read examines them
KeyOrder(e) ==
    IF e = "node" THEN <<"id", "uuid", "name">>
    ELSE IF e = "location" THEN <<"id", "short", "long">>
    ELSE <<"id", "username", "email", "external_id">>

\* positions in KeyOrder of the attributes the configuration sets
Populated == {k \in 1 .. Len(KeyOrder(entity)) : ~IsNull(config[KeyOrder(entity)[k]])}
\* the attribute Read is expected to look up by
FirstKey == KeyOrder(entity)[Min(Populated)]
Requested(f) == config[f].v
\* listing positions of the records whose attribute f has the requested value
MatchesOf(f) == {i \in 1 .. Len(records) : records[i][f] = Requested(f)}

\* the state value a panel record maps to
ModelOf(rec) == [f \in DOMAIN rec |-> [st |-> "known", v |-> rec[f]]]
ZeroOf(e) ==
    IF e = "node" THEN ZeroNode ELSE IF e = "location" THEN ZeroLocation ELSE ZeroUser

FetchByIDOp(e) ==
    IF e = "node" THEN "GetNode" ELSE IF e = "location" THEN "GetLocation" ELSE "GetUser"
FetchAllOps == {"GetNodes", "GetLocations"}
\* the client call that looks up attribute f of entity e
FetchOp(e, f) ==
    IF f = "id" THEN FetchByIDOp(e)
    ELSE IF e = "node" THEN "GetNodes"
    ELSE IF e = "location" THEN "GetLocations"
    ELSE IF f = "username" THEN "GetUserUsername"
    ELSE IF f = "email" THEN "GetUserEmail" ELSE "GetUserExternalID"
FetchArg(e, f) == IF FetchOp(e, f) \in FetchAllOps THEN "" ELSE Requested(f)

\* no client call of the invocation failed in transport
PanelReachable == \A i \in 1 .. Len(calls) : calls[i].err # BackendFailure
SomeCallFailed == \E i \in 1 .. Len(calls) : calls[i].err # NoErr

\* C1: a request with exactly one populated identifying attribute whose value
\* matches a record of the panel (the panel being reachable) succeeds and
\* writes to state a panel record whose attribute equals the requested value.
C1_ResolveReturnsMatchingRecord ==
    (/\ Responded
     /\ Cardinality(Populated) = 1
     /\ MatchesOf(FirstKey) # {}
     /\ PanelReachable)
    => /\ diags = <<>>
       /\ state.set
       /\ state.value[FirstKey] = config[FirstKey]
       /\ \E i \in 1 .. Len(records) : state.value = ModelOf(records[i])

\* C1 witness: a lookup by a non-id attribute found its record, listed second
C1_Witness ==
    /\ Responded
    /\ Cardinality(Populated) = 1
    /\ FirstKey # "id"
    /\ MatchesOf(FirstKey) = {2}
    /\ state.set
    /\ state.value = ModelOf(records[2])

\* C2: a request with no populated identifying attribute fails with Missing
\* Attribute, issues no client call and writes no state.
C2_MissingAttribute ==
    (Responded /\ Populated = {})
    => /\ Len(diags) = 1
       /\ diags[1].summary = "Missing Attribute"
       /\ calls = <<>>
       /\ ~state.set

\* C2 witness: a Read ran on a configuration with every attribute null
C2_Witness ==
    /\ Responded
    /\ Populated = {}
    /\ records # <<>>
    /\ diags # <<>>

\* C3: with both id and name populated Read fetches by id (GetNode with the
\* configured id) and never calls the listing GetNodes.
C3_IdBeforeName ==
    (/\ Responded
     /\ entity = "node"
     /\ ~IsNull(config.id)
     /\ ~IsNull(config.name))
    => /\ Len(calls) = 1
       /\ calls[1].op = "GetNode"
       /\ calls[1].arg = Requested("id")
       /\ \A i \in 1 .. Len(calls) : calls[i].op # "GetNodes"

\* C3 witness: id and name both set, naming different records; the id's record is returned
C3_Witness ==
    /\ Responded
    /\ entity = "node"
    /\ ~IsNull(config.id)
    /\ ~IsNull(config.name)
    /\ state.set
    /\ state.value.id = config.id
    /\ state.value.name # config.name
    /\ MatchesOf("name") # {}

\* C4: whatever attributes are populated, Read issues exactly the fetch of the
\* first populated attribute in the fixed order (id first) and none for the
\* attributes after it; a record it returns was looked up by that attribute.
C4_HighestPriorityFetchOnly ==
    (Responded /\ Populated # {})
    => /\ Len(calls) = 1
       /\ calls[1].op = FetchOp(entity, FirstKey)
       /\ calls[1].arg = FetchArg(entity, FirstKey)
       /\ (state.set /\ diags = <<>>)
          => \/ state.value[FirstKey] = config[FirstKey]
             \/ state.value = ModelOf(ZeroOf(entity))

\* C4 witness: two non-id attributes populated, naming different records; the
\* record of the earlier attribute is returned
C4_Witness ==
    /\ Responded
    /\ Cardinality(Populated) >= 2
    /\ IsNull(config.id)
    /\ state.set
    /\ state.value[FirstKey] = config[FirstKey]
    /\ \E k \in Populated \ {Min(Populated)} :
           /\ MatchesOf(KeyOrder(entity)[k]) # {}
           /\ state.value[KeyOrder(entity)[k]] # config[KeyOrder(entity)[k]]

\* the lookup goes through the listing (fetch-all) and the listing succeeded
ListingPath ==
    /\ Responded
    /\ Populated # {}
    /\ FetchOp(entity, FirstKey) \in FetchAllOps
    /\ ~SomeCallFailed

\* C5: when the populated non-id attribute matches no entity of the listing,
\* Read returns the zero-value record and reports no error.
C5_NotFoundIsZeroRecord ==
    (ListingPath /\ MatchesOf(FirstKey) = {})
    => /\ diags = <<>>
       /\ state = StateSet(ModelOf(ZeroOf(entity)))

\* C5 witness: a non-empty listing without the requested value
C5_Witness ==
    /\ ListingPath
    /\ MatchesOf(FirstKey) = {}
    /\ Len(records) = MaxRecords
    /\ Requested(FirstKey) # ""
    /\ state.set

\* C6: when several listed entities carry the requested value, Read returns
\* the first of them in listing order and reports no error.
C6_FirstMatchWins ==
    (ListingPath /\ MatchesOf(FirstKey) # {})
    => /\ diags = <<>>
       /\ state.set
       /\ \E i \in MatchesOf(FirstKey) :
              /\ state.value = ModelOf(records[i])
              /\ \A j \in MatchesOf(FirstKey) : i <= j

\* C6 witness: two listed records share the requested value and differ otherwise
C6_Witness ==
    /\ ListingPath
    /\ Cardinality(MatchesOf(FirstKey)) >= 2
    /\ records[1] # records[2]
    /\ state.set
    /\ state.value = ModelOf(records[1])

\* C7: whenever the client fetch fails, Read ends with exactly the backend's
\* error as diagnostic and writes no record to state -- for every data
\* source and every lookup path.
C7_BackendErrorIsTerminal ==
    (Responded /\ SomeCallFailed)
    => /\ Len(diags) = 1
       /\ diags[1].detail = calls[1].err
       /\ ~state.set

\* C8: an invocation issues at most one client call, failed or not.
C8_AtMostOneCall == Len(calls) <= 1

\* C8 witness: the single call failed and was not repeated
C8_Witness ==
    /\ Responded
    /\ Len(calls) = 1
    /\ calls[1].err = BackendFailure
    /\ diags # <<>>

\* ===================================================== nodeResource.Update
\* most allocation entries a plan lists
MaxPlan == 2
\* most allocations the panel creates in one behaviour
MaxCreated == 3
\* plan.ID: the identifier of the managed node
NodeID == 1

\* ip and port of an allocation; the panel keeps them unique within a node
Endpoints == {[ip |-> "10.0.0.1", port |-> 25565], [ip |-> "10.0.0.2", port |-> 25566]}

\* pterodactyl.Allocation as the panel lists it
PanelAllocations == {[id |-> i, ip |-> e.ip, port |-> e.port] : i \in IDs, e \in Endpoints}
DistinctEndpoints(s) ==
    \A i, j \in 1 .. Len(s) :
        i # j => (s[i].ip # s[j].ip \/ s[i].port # s[j].port)
AllocationListings == {s \in Listings(PanelAllocations) : DistinctEndpoints(s)}

\* the Allocation entries of a plan: ip and port are required, id is computed
\* (null, unknown, or a known identifier)
PlanIDs == {Null, Unknown} \cup {Int32Value(i) : i \in IDs}
PlanAllocations ==
    {[id |-> x, ip |-> StringValue(e.ip), port |-> Int32Value(e.port)] :
        x \in PlanIDs, e \in Endpoints}

RECURSIVE SeqsUpTo(_, _)
SeqsUpTo(S, n) ==
    IF n = 0 THEN {<<>>}
    ELSE LET shorter == SeqsUpTo(S, n - 1)
         IN shorter \cup
            {Append(q, x) : q \in {t \in shorter : Len(t) = n - 1}, x \in S}

\* nodeResourceModel as planned: id, name and the allocations list
Plans ==
    [id : {Int32Value(NodeID)},
     name : {StringValue(n) : n \in Strs},
     allocations : SeqsUpTo(PlanAllocations, MaxPlan)]

\* a call log entry that also records what the call returned
CallR(op, arg, err, res) == [op |-> op, arg |-> arg, err |-> err, res |-> res]
\* "<prefix>" + err.Error()
Concat(prefix, msg) == <<prefix, msg>>
FailureOf(fail) == IF fail THEN BackendFailure ELSE NoErr

\* variant: a plan entry matches only when ip and port are the same as well
FoundSameEndpoint(allocation, planAllocations) ==
    \E k \in 1 .. Len(planAllocations) :
        /\ allocation.id = ValueInt32(planAllocations[k].id)
        /\ allocation.ip = ValueString(planAllocations[k].ip)
        /\ allocation.port = ValueInt32(planAllocations[k].port)

\* inner loop of "Delete unneeded allocations":
\* for _, planAllocation := range plan.Allocations {
\*     if allocation.ID == planAllocation.ID.ValueInt32() { found = true; break } }
Found(allocation, planAllocations) ==
    \E k \in 1 .. Len(planAllocations) :
        allocation.id = ValueInt32(planAllocations[k].id)

\* Allocation{ID: types.Int32Value(allocation.ID), IP: ..., Port: ...}
AllocationModel(allocation) ==
    [id |-> Int32Value(allocation.id), ip |-> StringValue(allocation.ip),
     port |-> Int32Value(allocation.port)]
\* the zero value of the Allocation struct: every attribute null
ZeroAllocation == [id |-> Null, ip |-> Null, port |-> Null]
\* mutant: the slice is made one element longer than the fetched list
MakeAllocationsOneMore(n) == [k \in 1 .. n + 1 |-> ZeroAllocation]

\* make([]Allocation, n): n zero-value elements
MakeAllocations(n) == [k \in 1 .. n |-> ZeroAllocation]

\* plan.Allocations = make([]Allocation, len(nodeAllocations)) followed by
\* one append per fetched allocation
MapAllocations(fetched) ==
    MakeAllocations(Len(fetched)) \o [k \in 1 .. Len(fetched) |-> AllocationModel(fetched[k])]

\* "Update resource plan with updated values": the model handed to resp.State.Set
UpdatedModel(p, name, fetched) ==
    [id |-> p.id, name |-> StringValue(name), allocations |-> MapAllocations(fetched)]

\* entries of the plan that the create loop sends to the panel
NewCount(p) == Cardinality({k \in 1 .. Len(p.allocations) : IsNull(p.allocations[k].id)})

\* the panel refuses an allocation whose ip and port the node already has
EndpointTaken(ip, port) ==
    \E k \in 1 .. Len(allocations) : allocations[k].ip = ip /\ allocations[k].port = port

\* variant: the error is recorded and the handler goes on with its next phase
RecordErrorAndGoOn(summary, detail) ==
    /\ diags' = <<Diag(summary, detail)>>
    /\ pc' = IF pc = "delete" THEN "create" ELSE IF pc = "create" THEN "refetch" ELSE "done"

\* the handler returns after AddError
ReturnWithError(summary, detail) ==
    /\ diags' = <<Diag(summary, detail)>>
    /\ pc' = "done"

InitReconcile ==
    /\ entity = "node"
    /\ records = <<>>
    /\ config = [id |-> Null, uuid |-> Null, name |-> Null]
    /\ state = Unset
    /\ diags = <<>>
    /\ calls = <<>>
    /\ allocations \in AllocationListings
    /\ nextID = MaxID + 1
    /\ nodeName = "a"
    /\ plan \in Plans
    /\ pc = "idle"
    /\ nodeAllocations = <<>>
    /\ idx = 0
    /\ rerun = FALSE
    /\ env = NoEnv
    /\ providerData = NoClient

\* variant: a failed UpdateNode is reported and the handler goes on to the allocations
Update_UpdateNodeGoesOn ==
    /\ pc \in {"idle", "done"}
    /\ plan # NoPlan
    /\ nextID + NewCount(plan) <= MaxID + 1 + MaxCreated
    /\ rerun' = (pc = "done" /\ diags = <<>> /\ state.set)
    /\ state' = Unset
    /\ nodeAllocations' = <<>>
    /\ idx' = 0
    /\ \E fail \in BOOLEAN :
           /\ calls' = <<Call("UpdateNode", ValueInt32(plan.id), FailureOf(fail))>>
           /\ IF fail
              THEN /\ diags' = <<Diag("Error Updating Pterodactyl Node",
                                       Concat("Could not update node, unexpected error: ",
                                              BackendFailure))>>
                   /\ pc' = "fetch"
                   /\ UNCHANGED nodeName
              ELSE /\ nodeName' = ValueString(plan.name)
                   /\ diags' = <<>>
                   /\ pc' = "fetch"
    /\ UNCHANGED <<providerVars, dataSourceVars, allocations, nextID, plan>>

\* Update is entered with a fresh response; r.client.UpdateNode(plan.ID, partialNode)
Update_UpdateNode ==
    /\ pc \in {"idle", "done"}
    /\ plan # NoPlan
    /\ nextID + NewCount(plan) <= MaxID + 1 + MaxCreated
    /\ rerun' = (pc = "done" /\ diags = <<>> /\ state.set)
    /\ state' = Unset
    /\ nodeAllocations' = <<>>
    /\ idx' = 0
    /\ \E fail \in BOOLEAN :
           /\ calls' = <<Call("UpdateNode", ValueInt32(plan.id), FailureOf(fail))>>
           /\ IF fail
              THEN /\ ReturnWithError("Error Updating Pterodactyl Node",
                                      Concat("Could not update node, unexpected error: ",
                                             BackendFailure))
                   /\ UNCHANGED nodeName
              ELSE /\ nodeName' = ValueString(plan.name)
                   /\ diags' = <<>>
                   /\ pc' = "fetch"
    /\ UNCHANGED <<providerVars, dataSourceVars, allocations, nextID, plan>>

\* nodeAllocations, err := r.client.GetNodeAllocations(plan.ID)
Update_GetNodeAllocations ==
    /\ pc = "fetch"
    /\ \E fail \in BOOLEAN :
           IF fail
           THEN /\ calls' = Append(calls, CallR("GetNodeAllocations", ValueInt32(plan.id),
                                                BackendFailure, <<>>))
                /\ ReturnWithError("Error Updating Pterodactyl Node Allocations",
                                   Concat("Could not update node allocations: ", BackendFailure))
                /\ UNCHANGED <<nodeAllocations, idx>>
           ELSE /\ calls' = Append(calls, CallR("GetNodeAllocations", ValueInt32(plan.id),
                                                NoErr, allocations))
                /\ nodeAllocations' = allocations
                /\ idx' = 1
                /\ pc' = "delete"
                /\ UNCHANGED diags
    /\ UNCHANGED <<providerVars, dataSourceVars, panelVars, plan, state, rerun>>

\* one iteration of "for _, allocation := range nodeAllocations", or its end
Update_DeleteUnneeded ==
    /\ pc = "delete"
    /\ IF idx > Len(nodeAllocations)
       THEN /\ pc' = "create"
            /\ idx' = 1
            /\ UNCHANGED <<calls, diags, allocations>>
       ELSE LET allocation == nodeAllocations[idx]
            IN IF Found(allocation, plan.allocations)
               THEN /\ idx' = idx + 1
                    /\ UNCHANGED <<calls, diags, allocations, pc>>
               ELSE \E fail \in BOOLEAN :
                        /\ calls' = Append(calls, Call("DeleteAllocation",
                                                       <<ValueInt32(plan.id), allocation.id>>,
                                                       FailureOf(fail)))
                        /\ IF fail
                           THEN /\ ReturnWithError("Error deleting node allocation",
                                        Concat("Could not delete node allocation, unexpected error: ",
                                               BackendFailure))
                                /\ UNCHANGED <<allocations, idx>>
                           ELSE /\ allocations' =
                                       SelectSeq(allocations, LAMBDA a : a.id # allocation.id)
                                /\ idx' = idx + 1
                                /\ UNCHANGED <<diags, pc>>
    /\ UNCHANGED <<providerVars, dataSourceVars, nextID, nodeName, plan, nodeAllocations, state, rerun>>

\* variant: at the end of the create loop the handler runs the delete loop again
Update_CreateNewThenDelete ==
    /\ pc = "create"
    /\ IF idx > Len(plan.allocations)
       THEN /\ pc' = "delete"
            /\ idx' = 1
            /\ UNCHANGED <<calls, diags, allocations, nextID>>
       ELSE LET allocation == plan.allocations[idx]
                ip == ValueString(allocation.ip)
                port == ValueInt32(allocation.port)
            IN IF ~IsNull(allocation.id)
               THEN /\ idx' = idx + 1
                    /\ UNCHANGED <<calls, diags, allocations, nextID, pc>>
               ELSE \E fail \in {f \in BOOLEAN : EndpointTaken(ip, port) => f} :
                        /\ calls' = Append(calls, Call("CreateAllocation",
                                                       <<ValueInt32(plan.id), ip, port>>,
                                                       FailureOf(fail)))
                        /\ IF fail
                           THEN /\ ReturnWithError("Error creating node allocation",
                                        Concat("Could not create node allocation, unexpected error: ",
                                               BackendFailure))
                                /\ UNCHANGED <<allocations, nextID, idx>>
                           ELSE /\ allocations' =
                                       Append(allocations, [id |-> nextID, ip |-> ip, port |-> port])
                                /\ nextID' = nextID + 1
                                /\ idx' = idx + 1
                                /\ UNCHANGED <<diags, pc>>
    /\ UNCHANGED <<providerVars, dataSourceVars, nodeName, plan, nodeAllocations, state, rerun>>

\* one iteration of "for _, allocation := range plan.Allocations", or its end
Update_CreateNew ==
    /\ pc = "create"
    /\ IF idx > Len(plan.allocations)
       THEN /\ pc' = "refetch"
            /\ UNCHANGED <<calls, diags, allocations, nextID, idx>>
       ELSE LET allocation == plan.allocations[idx]
                ip == ValueString(allocation.ip)
                port == ValueInt32(allocation.port)
            IN IF ~IsNull(allocation.id)
               THEN /\ idx' = idx + 1
                    /\ UNCHANGED <<calls, diags, allocations, nextID, pc>>
               ELSE \E fail \in {f \in BOOLEAN : EndpointTaken(ip, port) => f} :
                        /\ calls' = Append(calls, Call("CreateAllocation",
                                                       <<ValueInt32(plan.id), ip, port>>,
                                                       FailureOf(fail)))
                        /\ IF fail
                           THEN /\ ReturnWithError("Error creating node allocation",
                                        Concat("Could not create node allocation, unexpected error: ",
                                               BackendFailure))
                                /\ UNCHANGED <<allocations, nextID, idx>>
                           ELSE /\ allocations' =
                                       Append(allocations, [id |-> nextID, ip |-> ip, port |-> port])
                                /\ nextID' = nextID + 1
                                /\ idx' = idx + 1
                                /\ UNCHANGED <<diags, pc>>
    /\ UNCHANGED <<providerVars, dataSourceVars, nodeName, plan, nodeAllocations, state, rerun>>

\* nodeAllocations, err = r.client.GetNodeAllocations(plan.ID), then the
\* mapping of the plan and resp.State.Set
Update_Refetch ==
    /\ pc = "refetch"
    /\ \E fail \in BOOLEAN :
           IF fail
           THEN /\ calls' = Append(calls, CallR("GetNodeAllocations", ValueInt32(plan.id),
                                                BackendFailure, <<>>))
                /\ ReturnWithError("Error Updating Pterodactyl Node Allocations",
                                   Concat("Could not update node allocations: ", BackendFailure))
                /\ UNCHANGED <<nodeAllocations, state>>
           ELSE /\ calls' = Append(calls, CallR("GetNodeAllocations", ValueInt32(plan.id),
                                                NoErr, allocations))
                /\ nodeAllocations' = allocations
                /\ state' = StateSet(UpdatedModel(plan, nodeName, allocations))
                /\ pc' = "done"
                /\ UNCHANGED diags
    /\ UNCHANGED <<providerVars, dataSourceVars, panelVars, plan, idx, rerun>>

NextReconcile ==
    \/ Update_UpdateNode
    \/ Update_GetNodeAllocations
    \/ Update_DeleteUnneeded
    \/ Update_CreateNew
    \/ Update_Refetch

SpecReconcile == InitReconcile /\ [][NextReconcile]_vars

\* ======================================================= list data sources
\* nodeAllocationsDataSource, nodesDataSource and nodesLocationDataSource
ListEntities == {"node_allocations", "nodes", "nodes_location"}

\* pterodactyl.Node as GetNodes lists it: its id and its location
LocatedNodes == [id : IDs, locationID : IDs]
\* pterodactyl.Allocation together with the node the panel keeps it under
OwnedAllocations ==
    {[id |-> i, ip |-> e.ip, port |-> e.port, node |-> n] :
        i \in IDs, e \in Endpoints, n \in IDs}

\* req.Config of each data source: nodeid is a required int32, location_id
\* is optional for nodes and required for nodes_location
ListConfigsOf(e) ==
    IF e = "node_allocations" THEN [nodeid : IDs]
    ELSE IF e = "nodes" THEN [location_id : {Null} \cup {Int32Value(i) : i \in IDs}]
    ELSE [location_id : {Int32Value(i) : i \in IDs}]

\* client.GetNodeAllocations(nodeID): the allocations of that node, in
\* listing order (nil on failure)
GetNodeAllocations(allocs, nodeID, fail) ==
    IF fail THEN Err(BackendFailure, <<>>)
    ELSE Ok(SelectSeq(allocs, LAMBDA a : a.node = nodeID))

\* "var state nodeAllocationsDataSourceModel": NodeID 0, NodeAllocations nil
ZeroNodeAllocationsModel == [nodeid |-> 0, allocations |-> <<>>]
\* "var state nodesDataSourceModel": LocationID null, Nodes nil
ZeroNodesModel == [location_id |-> Null, nodes |-> <<>>]

\* Node{ID: types.Int32Value(node.ID), LocationID: types.Int32Value(node.LocationID), ...}
LocatedNodeModel(node) ==
    [id |-> Int32Value(node.id), location_id |-> Int32Value(node.locationID)]

\* nodeAllocationsDataSource.Read: the handler declares state and never
\* loads req.Config into it
NodeAllocationsRead(allocs, fail) ==
    LET state0 == ZeroNodeAllocationsModel
        r == GetNodeAllocations(allocs, state0.nodeid, fail)
        c == <<Call("GetNodeAllocations", state0.nodeid, r.err)>>
    IN IF r.err # NoErr
       THEN Outcome(c, <<Diag("Unable to Read Pterodactyl Nodes", r.err)>>, Unset)
       ELSE Outcome(c, <<>>,
                    StateSet([state0 EXCEPT !.allocations =
                                 [k \in 1 .. Len(r.val) |-> AllocationModel(r.val[k])]]))

\* the nodes of the listing that the loop of nodesDataSource.Read keeps
KeptNodes(nodes, locationID) ==
    SelectSeq(nodes, LAMBDA node :
        ~(ValueInt32(locationID) # 0 /\ node.locationID # ValueInt32(locationID)))
\* the nodes of the listing that the loop of nodesLocationDataSource.Read keeps
KeptNodesOfLocation(nodes, locationID) ==
    SelectSeq(nodes, LAMBDA node : ~(node.locationID # ValueInt32(locationID)))

\* nodesDataSource.Read: the handler declares state and never loads
\* req.Config into it
NodesRead(recs, fail) ==
    LET state0 == ZeroNodesModel
        r == GetAll(recs, fail)
        c == <<Call("GetNodes", "", r.err)>>
        nodes == KeptNodes(r.val, state0.location_id)
    IN IF r.err # NoErr
       THEN Outcome(c, <<Diag("Unable to Read Pterodactyl Nodes", r.err)>>, Unset)
       ELSE Outcome(c, <<>>,
                    StateSet([state0 EXCEPT !.nodes =
                                 [k \in 1 .. Len(nodes) |-> LocatedNodeModel(nodes[k])]]))

\* nodesLocationDataSource.Read: the same, with its own loop condition
NodesLocationRead(recs, fail) ==
    LET state0 == ZeroNodesModel
        r == GetAll(recs, fail)
        c == <<Call("GetNodes", "", r.err)>>
        nodes == KeptNodesOfLocation(r.val, state0.location_id)
    IN IF r.err # NoErr
       THEN Outcome(c, <<Diag("Unable to Read Pterodactyl Nodes", r.err)>>, Unset)
       ELSE Outcome(c, <<>>,
                    StateSet([state0 EXCEPT !.nodes =
                                 [k \in 1 .. Len(nodes) |-> LocatedNodeModel(nodes[k])]]))

\* a list data source block with its configuration, a panel holding some
\* nodes and allocations, and no Read performed yet
InitList ==
    /\ entity \in ListEntities
    /\ records \in IF entity = "node_allocations" THEN {<<>>} ELSE Listings(LocatedNodes)
    /\ allocations \in IF entity = "node_allocations" THEN Listings(OwnedAllocations)
                       ELSE {<<>>}
    /\ config \in ListConfigsOf(entity)
    /\ state = Unset
    /\ diags = <<>>
    /\ calls = <<>>
    /\ nextID = MaxID + 1
    /\ nodeName = "a"
    /\ plan = NoPlan
    /\ pc = "idle"
    /\ nodeAllocations = <<>>
    /\ idx = 0
    /\ rerun = FALSE
    /\ env = NoEnv
    /\ providerData = NoClient

NodeAllocationsDataSourceRead ==
    /\ entity = "node_allocations"
    /\ \E fail \in BOOLEAN : Respond(NodeAllocationsRead(allocations, fail))
    /\ UNCHANGED <<providerVars, dataSourceVars, panelVars, updateVars>>

NodesDataSourceRead ==
    /\ entity = "nodes"
    /\ \E fail \in BOOLEAN : Respond(NodesRead(records, fail))
    /\ UNCHANGED <<providerVars, dataSourceVars, panelVars, updateVars>>

NodesLocationDataSourceRead ==
    /\ entity = "nodes_location"
    /\ \E fail \in BOOLEAN : Respond(NodesLocationRead(records, fail))
    /\ UNCHANGED <<providerVars, dataSourceVars, panelVars, updateVars>>

NextList ==
    \/ NodeAllocationsDataSourceRead
    \/ NodesDataSourceRead
    \/ NodesLocationDataSourceRead

SpecList == InitList /\ [][NextList]_vars

\* ==================================================== provider Configure
\* values of the host and api key settings and of their environment variables
\* (os.Getenv gives "" for a variable that is not set)
Settings == {""} \cup Strs
Environments == [PTERODACTYL_HOST : Settings, PTERODACTYL_API_KEY : Settings]
\* pterodactylProviderModel: host and api_key, each null, unknown or known
ProviderConfigs ==
    [host : {Null, Unknown} \cup {StringValue(v) : v \in Settings},
     api_key : {Null, Unknown} \cup {StringValue(v) : v \in Settings}]

\* resp.Diagnostics.AddAttributeError(path.Root(attribute), summary, ...)
AttributeError(attribute, summary) == [attribute |-> attribute, summary |-> summary]

\* variant: only a non-empty configuration value replaces the environment's
OverrideIfNotEmpty(fromEnv, fromConfig) ==
    IF ~IsNull(fromConfig) /\ ValueString(fromConfig) # "" THEN ValueString(fromConfig)
    ELSE fromEnv

\* host := os.Getenv(...); if !config.Host.IsNull() { host = config.Host.ValueString() }
Override(fromEnv, fromConfig) ==
    IF ~IsNull(fromConfig) THEN ValueString(fromConfig) ELSE fromEnv

\* the client NewClient(&host, &apiKey) returns
Client(host, apiKey) == [set |-> TRUE, host |-> host, apiKey |-> apiKey]

\* the diagnostics of the two IsUnknown checks
UnknownErrors(cfg) ==
    (IF IsUnknown(cfg.host)
     THEN <<AttributeError("host", "Unknown Pterodactyl Panel Host")>> ELSE <<>>)
    \o (IF IsUnknown(cfg.api_key)
        THEN <<AttributeError("api_key", "Unknown Pterodactyl Panel API Key")>> ELSE <<>>)
\* variant: the api key is examined only when the host is not empty
MissingErrorsFirstOnly(host, apiKey) ==
    IF host = "" THEN <<AttributeError("host", "Missing Pterodactyl Panel Host")>>
    ELSE IF apiKey = "" THEN <<AttributeError("apiKey", "Missing Pterodactyl Panel API Key")>>
    ELSE <<>>

\* the diagnostics of the two empty-string checks
MissingErrors(host, apiKey) ==
    (IF host = ""
     THEN <<AttributeError("host", "Missing Pterodactyl Panel Host")>> ELSE <<>>)
    \o (IF apiKey = ""
        THEN <<AttributeError("apiKey", "Missing Pterodactyl Panel API Key")>> ELSE <<>>)

\* pterodactylProvider.Configure: diagnostics, client calls and the data
\* handed to data sources and resources
Configure(cfg, environment, fail) ==
    LET host == Override(environment.PTERODACTYL_HOST, cfg.host)
        apiKey == Override(environment.PTERODACTYL_API_KEY, cfg.api_key)
    IN IF UnknownErrors(cfg) # <<>>
       THEN [diags |-> UnknownErrors(cfg), calls |-> <<>>, data |-> NoClient]
       ELSE IF MissingErrors(host, apiKey) # <<>>
       THEN [diags |-> MissingErrors(host, apiKey), calls |-> <<>>, data |-> NoClient]
       ELSE IF fail
       THEN [diags |-> <<Diag("Unable to Create Pterodactyl API Client", BackendFailure)>>,
             calls |-> <<Call("NewClient", <<host, apiKey>>, BackendFailure)>>,
             data |-> NoClient]
       ELSE [diags |-> <<>>,
             calls |-> <<Call("NewClient", <<host, apiKey>>, NoErr)>>,
             data |-> Client(host, apiKey)]

\* a provider block with its configuration, started in some environment, not
\* configured yet
InitConfigure ==
    /\ entity = "provider"
    /\ records = <<>>
    /\ config \in ProviderConfigs
    /\ env \in Environments
    /\ providerData = NoClient
    /\ state = Unset
    /\ diags = <<>>
    /\ calls = <<>>
    /\ allocations = <<>>
    /\ nextID = MaxID + 1
    /\ nodeName = "a"
    /\ plan = NoPlan
    /\ pc = "idle"
    /\ nodeAllocations = <<>>
    /\ idx = 0
    /\ rerun = FALSE

ProviderConfigure ==
    /\ entity = "provider"
    /\ pc = "idle"
    /\ \E fail \in BOOLEAN :
           LET o == Configure(config, env, fail)
           IN /\ diags' = o.diags
              /\ calls' = o.calls
              /\ providerData' = o.data
    /\ pc' = "done"
    /\ UNCHANGED <<dataSourceVars, panelVars, env, state, plan, nodeAllocations, idx, rerun>>

NextConfigure == ProviderConfigure

SpecConfigure == InitConfigure /\ [][NextConfigure]_vars

\* ============================================== resources: CRUD and import
\* userResource, locationResource, nodeResource (node_resource.go) and the
\* nodeResource that also manages allocations (part_004)
ResourceEntities == {"user", "location", "node", "node+allocations"}
\* most entries the allocations list of the state is let grow to
MaxStateAllocations == 2

\* a panel record of a managed entity: its id and, as attr, the attributes
\* Create and Update send (description for the node resources)
ResourceRecords == [id : IDs, attr : Strs \cup {""}]
ZeroResource == [id |-> 0, attr |-> ""]

\* the client methods of each entity type
CreateOp(e) ==
    IF e = "user" THEN "CreateUser" ELSE IF e = "location" THEN "CreateLocation" ELSE "CreateNode"
GetOp(e) ==
    IF e = "user" THEN "GetUser" ELSE IF e = "location" THEN "GetLocation" ELSE "GetNode"
UpdateOp(e) ==
    IF e = "user" THEN "UpdateUser" ELSE IF e = "location" THEN "UpdateLocation" ELSE "UpdateNode"
DeleteOp(e) ==
    IF e = "user" THEN "DeleteUser" ELSE IF e = "location" THEN "DeleteLocation" ELSE "DeleteNode"

\* req.Plan of Create: the id is computed and not known yet, the description
\* of a node is optional, allocations are planned for part_004 only
CreatePlanAllocations(e) ==
    IF e = "node+allocations"
    THEN SeqsUpTo({a \in PlanAllocations : a.id = Unknown}, MaxPlan)
    ELSE {<<>>}
PlanAttrs(e) ==
    {StringValue(v) : v \in Strs} \cup (IF e \in {"node", "node+allocations"} THEN {Null} ELSE {})
CreatePlans(e) == [id : {Unknown}, attr : PlanAttrs(e), allocations : CreatePlanAllocations(e)]
\* req.Plan of Update: the id attribute has UseStateForUnknown, so the plan
\* carries the id of the prior state
UpdatePlans(e, prior) == [id : {prior.id}, attr : PlanAttrs(e), allocations : {prior.allocations}]

\* what a handler leaves: client calls, diagnostics, resp.State, and the
\* panel's records, allocations and next identifier
Left(c, d, s, recs, allocs, nid) ==
    [calls |-> c, diags |-> d, state |-> s, records |-> recs, allocations |-> allocs,
     nextID |-> nid]

\* AddError summaries of the Create handlers
CreateError(e) ==
    IF e = "user" THEN "Error creating user"
    ELSE IF e = "location" THEN "Error creating location" ELSE "Error creating node"

\* the model handed to resp.State.Set
ResourceModel(id, attr, allocs) == [id |-> Int32Value(id), attr |-> attr, allocations |-> allocs]

\* variant: the computed id of the plan is not filled in before State.Set
CreateSimpleKeepsPlanID(e, p, recs, allocs, nid, failAt) ==
    LET created == [id |-> nid, attr |-> ValueString(p.attr)]
    IN IF failAt = 1
       THEN Left(<<CallR(CreateOp(e), ValueString(p.attr), BackendFailure, ZeroResource)>>,
                 <<Diag(CreateError(e), BackendFailure)>>, Unset, recs, allocs, nid)
       ELSE Left(<<CallR(CreateOp(e), ValueString(p.attr), NoErr, created)>>, <<>>,
                 StateSet([id |-> p.id, attr |-> p.attr, allocations |-> <<>>]),
                 Append(recs, created), allocs, nid + 1)

\* userResource.Create / locationResource.Create
CreateSimple(e, p, recs, allocs, nid, failAt) ==
    LET created == [id |-> nid, attr |-> ValueString(p.attr)]
    IN IF failAt = 1
       THEN Left(<<CallR(CreateOp(e), ValueString(p.attr), BackendFailure, ZeroResource)>>,
                 <<Diag(CreateError(e), BackendFailure)>>, Unset, recs, allocs, nid)
       ELSE Left(<<CallR(CreateOp(e), ValueString(p.attr), NoErr, created)>>, <<>>,
                 StateSet(ResourceModel(created.id, p.attr, <<>>)),
                 Append(recs, created), allocs, nid + 1)

\* nodeResource.Create of node_resource.go: CreateNode, then UpdateNode when
\* the planned description is not null
CreateNodeWithDescription(p, recs, allocs, nid, failAt) ==
    LET node == [id |-> nid, attr |-> ValueString(p.attr)]
        create == CallR("CreateNode", ValueString(p.attr), NoErr, node)
        update(err) == Call("UpdateNode", node.id, err)
    IN IF failAt = 1
       THEN Left(<<CallR("CreateNode", ValueString(p.attr), BackendFailure, ZeroResource)>>,
                 <<Diag("Error creating node", BackendFailure)>>, Unset, recs, allocs, nid)
       ELSE IF IsNull(p.attr)
       THEN Left(<<create>>, <<>>, StateSet(ResourceModel(node.id, p.attr, <<>>)),
                 Append(recs, node), allocs, nid + 1)
       ELSE IF failAt = 2
       THEN Left(<<create, update(BackendFailure)>>,
                 <<Diag("Error Updating Pterodactyl Node", BackendFailure)>>, Unset,
                 Append(recs, node), allocs, nid + 1)
       ELSE Left(<<create, update(NoErr)>>, <<>>,
                 StateSet(ResourceModel(node.id, StringValue(node.attr), <<>>)),
                 Append(recs, node), allocs, nid + 1)

\* variant: a refused allocation is skipped and the loop goes on
RECURSIVE CreateAllocationsSkipFailed(_, _, _, _, _, _, _)
CreateAllocationsSkipFailed(nodeID, planned, k, allocs, nid, made, failAt) ==
    IF k > Len(planned)
    THEN [calls |-> made, allocations |-> allocs, nextID |-> nid, failed |-> FALSE]
    ELSE LET ip == ValueString(planned[k].ip)
             port == ValueInt32(planned[k].port)
             taken == \E j \in 1 .. Len(allocs) :
                          /\ allocs[j].node = nodeID
                          /\ allocs[j].ip = ip
                          /\ allocs[j].port = port
         IN IF taken \/ failAt = Len(made) + 2
            THEN [CreateAllocationsSkipFailed(nodeID, planned, k + 1, allocs, nid,
                      Append(made, Call("CreateAllocation", <<nodeID, ip, port>>,
                                        BackendFailure)),
                      IF failAt = Len(made) + 2 THEN 0 ELSE failAt)
                  EXCEPT !.failed = TRUE]
            ELSE CreateAllocationsSkipFailed(nodeID, planned, k + 1,
                     Append(allocs, [id |-> nid, ip |-> ip, port |-> port, node |-> nodeID]),
                     nid + 1,
                     Append(made, Call("CreateAllocation", <<nodeID, ip, port>>, NoErr)),
                     failAt)

\* "for _, allocation := range plan.Allocations" of nodeResource.Create in
\* part_004, from entry k on: the calls made, what the panel holds after
\* them and whether a call failed (the call numbered failAt fails, and the
\* panel refuses an ip and port the node already has)
RECURSIVE CreateAllocations(_, _, _, _, _, _, _)
CreateAllocations(nodeID, planned, k, allocs, nid, made, failAt) ==
    IF k > Len(planned)
    THEN [calls |-> made, allocations |-> allocs, nextID |-> nid, failed |-> FALSE]
    ELSE LET ip == ValueString(planned[k].ip)
             port == ValueInt32(planned[k].port)
             taken == \E j \in 1 .. Len(allocs) :
                          /\ allocs[j].node = nodeID
                          /\ allocs[j].ip = ip
                          /\ allocs[j].port = port
         IN IF taken \/ failAt = Len(made) + 2
            THEN [calls |-> Append(made, Call("CreateAllocation", <<nodeID, ip, port>>,
                                              BackendFailure)),
                  allocations |-> allocs, nextID |-> nid, failed |-> TRUE]
            ELSE CreateAllocations(nodeID, planned, k + 1,
                     Append(allocs, [id |-> nid, ip |-> ip, port |-> port, node |-> nodeID]),
                     nid + 1,
                     Append(made, Call("CreateAllocation", <<nodeID, ip, port>>, NoErr)),
                     failAt)

\* nodeResource.Create of part_004: CreateNode, one CreateAllocation per
\* planned allocation, GetNodeAllocations, resp.State.Set
CreateNodeWithAllocations(p, recs, allocs, nid, failAt) ==
    LET node == [id |-> nid, attr |-> ValueString(p.attr)]
        create == CallR("CreateNode", ValueString(p.attr), NoErr, node)
        loop == CreateAllocations(node.id, p.allocations, 1, allocs, nid + 1, <<>>, failAt)
        fetched == GetNodeAllocations(loop.allocations, node.id,
                                      failAt = Len(loop.calls) + 2)
        fetch == CallR("GetNodeAllocations", node.id, fetched.err, fetched.val)
    IN IF failAt = 1
       THEN Left(<<CallR("CreateNode", ValueString(p.attr), BackendFailure, ZeroResource)>>,
                 <<Diag("Error creating node", BackendFailure)>>, Unset, recs, allocs, nid)
       ELSE IF loop.failed
       THEN Left(<<create>> \o loop.calls,
                 <<Diag("Error creating node allocation", BackendFailure)>>, Unset,
                 Append(recs, node), loop.allocations, loop.nextID)
       ELSE IF fetched.err # NoErr
       THEN Left(<<create>> \o loop.calls \o <<fetch>>,
                 <<Diag("Error creating node allocation", fetched.err)>>, Unset,
                 Append(recs, node), loop.allocations, loop.nextID)
       ELSE Left(<<create>> \o loop.calls \o <<fetch>>, <<>>,
                 StateSet(ResourceModel(node.id, StringValue(node.attr),
                                        MapAllocations(fetched.val))),
                 Append(recs, node), loop.allocations, loop.nextID)

\* Create of each resource
Create(e, p, recs, allocs, nid, failAt) ==
    IF e = "node" THEN CreateNodeWithDescription(p, recs, allocs, nid, failAt)
    ELSE IF e = "node+allocations" THEN CreateNodeWithAllocations(p, recs, allocs, nid, failAt)
    ELSE CreateSimple(e, p, recs, allocs, nid, failAt)

\* AddError summaries of the Read, Update and Delete handlers
ReadError(e) ==
    IF e = "user" THEN "Error Reading Pterodactyl User"
    ELSE IF e = "location" THEN "Error Reading Pterodactyl Location"
    ELSE "Error Reading Pterodactyl Node"
UpdateError(e) ==
    IF e = "user" THEN "Error Updating Pterodactyl User"
    ELSE IF e = "location" THEN "Error Updating Pterodactyl Location"
    ELSE "Error Updating Pterodactyl Node"
DeleteError(e) ==
    IF e = "user" THEN "Error Deleting Pterodactyl User"
    ELSE IF e = "location" THEN "Error Deleting Pterodactyl Location"
    ELSE "Error Deleting Pterodactyl Node"

\* "for _, allocation := range nodeAllocations { state.Allocations =
\* append(state.Allocations, Allocation{...}) }" of nodeResource.Read in part_004
AppendAllocations(stored, fetched) ==
    stored \o [k \in 1 .. Len(fetched) |-> AllocationModel(fetched[k])]

\* Read of each resource: req.State.Get, the Get call on state.ID (and
\* GetNodeAllocations in part_004), the refreshed attributes, resp.State.Set
Read(e, prior, recs, allocs, nid, failAt) ==
    LET id == ValueInt32(prior.id)
        r == GetByID(recs, id, failAt = 1, ZeroResource)
        get == Call(GetOp(e), id, r.err)
        fetched == GetNodeAllocations(allocs, id, failAt = 2)
        fetch == CallR("GetNodeAllocations", id, fetched.err, fetched.val)
    IN IF r.err # NoErr
       THEN Left(<<get>>, <<Diag(ReadError(e), r.err)>>, StateSet(prior), recs, allocs, nid)
       ELSE IF e # "node+allocations"
       THEN Left(<<get>>, <<>>, StateSet([prior EXCEPT !.attr = StringValue(r.val.attr)]),
                 recs, allocs, nid)
       ELSE IF fetched.err # NoErr
       THEN Left(<<get, fetch>>,
                 <<Diag("Error Reading Pterodactyl Node Allocations", fetched.err)>>,
                 StateSet(prior), recs, allocs, nid)
       ELSE Left(<<get, fetch>>, <<>>,
                 StateSet([prior EXCEPT
                              !.attr = StringValue(r.val.attr),
                              !.allocations = AppendAllocations(prior.allocations, fetched.val)]),
                 recs, allocs, nid)

\* the panel's records after the attributes of record id were replaced
WithAttr(recs, id, attr) ==
    [k \in 1 .. Len(recs) |-> IF recs[k].id = id THEN [recs[k] EXCEPT !.attr = attr] ELSE recs[k]]

\* variant: the plan is written to the state although the Update call failed
UpdateWritesPlanOnFailure(e, p, prior, recs, allocs, nid, failAt) ==
    LET id == ValueInt32(p.id)
        r == GetByID(recs, id, failAt = 1, ZeroResource)
        update == Call(UpdateOp(e), id, r.err)
    IN IF r.err # NoErr
       THEN Left(<<update>>, <<Diag(UpdateError(e), r.err)>>, StateSet(p), recs, allocs, nid)
       ELSE Left(<<update>>, <<>>, StateSet([p EXCEPT !.attr = StringValue(ValueString(p.attr))]),
                 WithAttr(recs, id, ValueString(p.attr)), allocs, nid)

\* Update of userResource, locationResource and nodeResource (node_resource.go):
\* the Update call on plan.ID, the returned attributes, resp.State.Set
Update(e, p, prior, recs, allocs, nid, failAt) ==
    LET id == ValueInt32(p.id)
        r == GetByID(recs, id, failAt = 1, ZeroResource)
        update == Call(UpdateOp(e), id, r.err)
    IN IF r.err # NoErr
       THEN Left(<<update>>, <<Diag(UpdateError(e), r.err)>>, StateSet(prior), recs, allocs, nid)
       ELSE Left(<<update>>, <<>>, StateSet([p EXCEPT !.attr = StringValue(ValueString(p.attr))]),
                 WithAttr(recs, id, ValueString(p.attr)), allocs, nid)

\* Delete of each resource: the Delete call on state.ID; the framework drops
\* the state when the handler returns without error
Delete(e, prior, recs, allocs, nid, failAt) ==
    LET id == ValueInt32(prior.id)
        r == GetByID(recs, id, failAt = 1, ZeroResource)
        delete == Call(DeleteOp(e), id, r.err)
    IN IF r.err # NoErr
       THEN Left(<<delete>>, <<Diag(DeleteError(e), r.err)>>, StateSet(prior), recs, allocs, nid)
       ELSE Left(<<delete>>, <<>>, Unset, SelectSeq(recs, LAMBDA rec : rec.id # id), allocs, nid)

\* ---------------------------------------------------------- import ids
\* req.ID of ImportState, character by character
Digits == {"0", "1", "2", "3", "4", "5", "6", "7", "8", "9"}
DigitValue(c) ==
    CASE c = "0" -> 0 [] c = "1" -> 1 [] c = "2" -> 2 [] c = "3" -> 3 [] c = "4" -> 4
      [] c = "5" -> 5 [] c = "6" -> 6 [] c = "7" -> 7 [] c = "8" -> 8 [] c = "9" -> 9
MaxInt32 == 2147483647
\* the import ids examined: numerals of known records, text that is no
\* numeral, a numeral above the int32 range (2^32 + 1) and one above the
\* int64 range (twenty nines)
ImportIDs ==
    {<<"0">>, <<"1">>, <<"2">>, <<>>, <<"x">>, <<"1", "x">>,
     <<"4", "2", "9", "4", "9", "6", "7", "2", "9", "7">>,
     [k \in 1 .. 20 |-> "9"]}

\* the text is a decimal numeral
IsNumeral(s) == Len(s) > 0 /\ \A k \in 1 .. Len(s) : s[k] \in Digits

\* the value of a numeral, or MaxInt32 + 1 reported as "over" once it is
\* above MaxInt32
RECURSIVE Magnitude(_, _, _)
Magnitude(s, k, acc) ==
    IF k > Len(s) THEN [over |-> FALSE, v |-> acc]
    ELSE IF acc > (MaxInt32 - DigitValue(s[k])) \div 10 THEN [over |-> TRUE, v |-> MaxInt32]
    ELSE Magnitude(s, k + 1, acc * 10 + DigitValue(s[k]))

\* the value of a numeral modulo 2^32, kept as two 16-bit halves
RECURSIVE Halves(_, _, _, _)
Halves(s, k, hi, lo) ==
    IF k > Len(s) THEN [hi |-> hi, lo |-> lo]
    ELSE LET low == lo * 10 + DigitValue(s[k])
         IN Halves(s, k + 1, (hi * 10 + low \div 65536) % 65536, low % 65536)
\* int32(v): the two's complement reading of the low 32 bits
Int32Of(h) == (IF h.hi >= 32768 THEN h.hi - 65536 ELSE h.hi) * 65536 + h.lo

SyntaxError == "invalid syntax"
RangeError == "value out of range"

\* strconv.ParseInt(s, 10, 32), then int32(...) of the result
ParseInt32(s) ==
    IF ~IsNumeral(s) THEN [val |-> 0, err |-> SyntaxError]
    ELSE IF Magnitude(s, 1, 0).over THEN [val |-> MaxInt32, err |-> RangeError]
    ELSE [val |-> Magnitude(s, 1, 0).v, err |-> NoErr]

\* strconv.Atoi(s) with an int of the given size, then int32(...) of the
\* result: a numeral above the range of int gives the largest int
AtoiInt32(s, intSize) ==
    IF ~IsNumeral(s) THEN [val |-> 0, err |-> SyntaxError]
    ELSE IF intSize = 32 THEN ParseInt32(s)
    ELSE IF Len(s) > 19 THEN [val |-> -1, err |-> RangeError]
    ELSE [val |-> Int32Of(Halves(s, 1, 0, 0)), err |-> NoErr]

\* variant: the handler returns after reporting the failed conversion
ImportLocationStopsOnConversionError(reqID, recs, allocs, nid, failAt) ==
    LET parsed == ParseInt32(reqID)
        r == GetByID(recs, parsed.val, failAt = 1, ZeroResource)
        get == Call("GetLocation", parsed.val, r.err)
    IN IF parsed.err # NoErr
       THEN Left(<<>>, <<Diag("Error importing state", "Couldn't convert id to int")>>, Unset,
                 recs, allocs, nid)
       ELSE IF r.err # NoErr
       THEN Left(<<get>>, <<Diag("Error Importing Pterodactyl Location", r.err)>>, Unset,
                 recs, allocs, nid)
       ELSE Left(<<get>>, <<>>,
                 StateSet(ResourceModel(r.val.id, StringValue(r.val.attr), <<>>)),
                 recs, allocs, nid)

\* locationResource.ImportState: a failed conversion is reported and the
\* handler goes on to GetLocation with the converted id
ImportLocation(reqID, recs, allocs, nid, failAt) ==
    LET parsed == ParseInt32(reqID)
        d == IF parsed.err # NoErr
             THEN <<Diag("Error importing state", "Couldn't convert id to int")>> ELSE <<>>
        r == GetByID(recs, parsed.val, failAt = 1, ZeroResource)
        get == Call("GetLocation", parsed.val, r.err)
    IN IF r.err # NoErr
       THEN Left(<<get>>, d \o <<Diag("Error Importing Pterodactyl Location", r.err)>>, Unset,
                 recs, allocs, nid)
       ELSE Left(<<get>>, d,
                 StateSet(ResourceModel(r.val.id, StringValue(r.val.attr), <<>>)),
                 recs, allocs, nid)

\* nodeResource.ImportState: the conversion error is dropped; part_004 also
\* fetches the allocations of the imported node
ImportNode(e, reqID, intSize, recs, allocs, nid, failAt) ==
    LET parsed == AtoiInt32(reqID, intSize)
        r == GetByID(recs, parsed.val, failAt = 1, ZeroResource)
        get == Call("GetNode", parsed.val, r.err)
        fetched == GetNodeAllocations(allocs, r.val.id, failAt = 2)
        fetch == CallR("GetNodeAllocations", r.val.id, fetched.err, fetched.val)
    IN IF r.err # NoErr
       THEN Left(<<get>>, <<Diag("Error Importing Pterodactyl User", r.err)>>, Unset,
                 recs, allocs, nid)
       ELSE IF e = "node"
       THEN Left(<<get>>, <<>>,
                 StateSet(ResourceModel(r.val.id, StringValue(r.val.attr), <<>>)),
                 recs, allocs, nid)
       ELSE IF fetched.err # NoErr
       THEN Left(<<get, fetch>>,
                 <<Diag("Error Importing Pterodactyl Node Allocations", fetched.err)>>, Unset,
                 recs, allocs, nid)
       ELSE Left(<<get, fetch>>, <<>>,
                 StateSet(ResourceModel(r.val.id, StringValue(r.val.attr),
                                        AppendAllocations(<<>>, fetched.val))),
                 recs, allocs, nid)

\* ------------------------------------------------- the resource lifecycle
\* most client calls one handler makes
MaxCalls == MaxPlan + 2

\* a resource block of one entity type without state, and a panel holding
\* at most one record of that type (and, for part_004, at most one allocation,
\* of a listed node)
InitResource ==
    /\ entity \in ResourceEntities
    /\ records \in {r \in Listings([id : IDs, attr : Strs]) : Len(r) <= 1}
    /\ allocations \in IF entity = "node+allocations"
                       THEN {a \in Listings(OwnedAllocations) :
                                /\ Len(a) <= 1
                                /\ \A k \in 1 .. Len(a) :
                                       \E j \in 1 .. Len(records) : records[j].id = a[k].node}
                       ELSE {<<>>}
    /\ config = [id |-> <<>>, intSize |-> 64]
    /\ state = Unset
    /\ diags = <<>>
    /\ calls = <<>>
    /\ nextID = MaxID + 1
    /\ nodeName = "a"
    /\ plan = NoPlan
    /\ pc = "idle"
    /\ nodeAllocations = <<>>
    /\ idx = 0
    /\ rerun = FALSE
    /\ env = NoEnv
    /\ providerData = NoClient

\* the handler returns: its response and what it did to the panel
Leave(o) ==
    /\ state' = o.state
    /\ diags' = o.diags
    /\ calls' = o.calls
    /\ records' = o.records
    /\ allocations' = o.allocations
    /\ nextID' = o.nextID

\* Create of each resource, for a resource that was not imported; the panel
\* takes one Create per behaviour
ResourceCreate ==
    /\ entity \in ResourceEntities
    /\ ~state.set
    /\ pc # "ImportState"
    /\ nextID = MaxID + 1
    /\ \E p \in CreatePlans(entity), failAt \in 0 .. MaxCalls :
           Leave(Create(entity, p, records, allocations, nextID, failAt))
    /\ pc' = "Create"
    /\ UNCHANGED <<providerVars, entity, config, nodeName, plan, nodeAllocations, idx, rerun>>

ResourceRead ==
    /\ entity \in ResourceEntities
    /\ state.set
    /\ Len(state.value.allocations) <= MaxStateAllocations
    /\ \E failAt \in 0 .. 2 :
           Leave(Read(entity, state.value, records, allocations, nextID, failAt))
    /\ pc' = "Read"
    /\ UNCHANGED <<providerVars, entity, config, nodeName, plan, nodeAllocations, idx, rerun>>

ResourceUpdate ==
    /\ entity \in {"user", "location", "node"}
    /\ state.set
    /\ \E p \in UpdatePlans(entity, state.value), failAt \in 0 .. 1 :
           Leave(Update(entity, p, state.value, records, allocations, nextID, failAt))
    /\ pc' = "Update"
    /\ UNCHANGED <<providerVars, entity, config, nodeName, plan, nodeAllocations, idx, rerun>>

ResourceDelete ==
    /\ entity \in ResourceEntities
    /\ state.set
    /\ \E failAt \in 0 .. 1 :
           Leave(Delete(entity, state.value, records, allocations, nextID, failAt))
    /\ pc' = "Delete"
    /\ UNCHANGED <<providerVars, entity, config, nodeName, plan, nodeAllocations, idx, rerun>>

\* ImportState of locationResource and of the two nodeResources, the first
\* handler to run for a resource that is imported, given some import id; int
\* is 32 or 64 bits wide depending on the build
ResourceImportState ==
    /\ entity \in {"location", "node", "node+allocations"}
    /\ pc = "idle"
    /\ \E reqID \in ImportIDs, failAt \in 0 .. 2,
          intSize \in IF entity = "location" THEN {64} ELSE {32, 64} :
           /\ config' = [id |-> reqID, intSize |-> intSize]
           /\ Leave(IF entity = "location"
                    THEN ImportLocation(reqID, records, allocations, nextID, failAt)
                    ELSE ImportNode(entity, reqID, intSize, records, allocations, nextID, failAt))
    /\ pc' = "ImportState"
    /\ UNCHANGED <<providerVars, entity, nodeName, plan, nodeAllocations, idx, rerun>>

NextResource ==
    \/ ResourceCreate
    \/ ResourceRead
    \/ ResourceUpdate
    \/ ResourceDelete
    \/ ResourceImportState

SpecResource == InitResource /\ [][NextResource]_vars

\* ================================================== properties of Reconcile
\* an Update ran to its end without any failing client call
UpdateSucceeded == pc = "done" /\ diags = <<>> /\ state.set

\* positions of the call log holding calls of one client method
CallsOf(op) == {k \in 1 .. Len(calls) : calls[k].op = op}
\* current: the list fetched before the loops (the second call of a run)
Current == calls[2].res
Desired == plan.allocations
\* a desired entity has an identifier when its id is a known value
HasIdentifier(p) == p.id.st = "known"
DesiredIDs == {Desired[k].id.v : k \in {j \in 1 .. Len(Desired) : HasIdentifier(Desired[j])}}
\* delete calls issued for the allocation with identifier id
DeletesOf(id) == {k \in CallsOf("DeleteAllocation") : calls[k].arg = <<NodeID, id>>}
\* create calls issued for an endpoint, and desired entities without
\* identifier asking for it
CreatesOf(e) == {k \in CallsOf("CreateAllocation") : calls[k].arg = <<NodeID, e.ip, e.port>>}
NewEntriesOf(e) ==
    {k \in 1 .. Len(Desired) :
        /\ ~HasIdentifier(Desired[k])
        /\ Desired[k].ip = StringValue(e.ip)
        /\ Desired[k].port = Int32Value(e.port)}

\* C9: in a run without backend failure, delete is invoked exactly once for
\* each entity of the fetched current list whose identifier is not among the
\* identifiers of the desired entities that have one, and never for a current
\* entity whose identifier is among them (nor for anything else).
C9_DeletesExactlyTheUndesired ==
    UpdateSucceeded
    => /\ \A k \in 1 .. Len(Current) :
              Cardinality(DeletesOf(Current[k].id)) =
                  IF Current[k].id \in DesiredIDs THEN 0 ELSE 1
       /\ \A k \in CallsOf("DeleteAllocation") :
              \E j \in 1 .. Len(Current) : calls[k].arg = <<NodeID, Current[j].id>>

\* C10: in a run without backend failure, create is invoked exactly once for
\* each desired entity lacking a persisted identifier and never for a desired
\* entity that has one.
C10_CreatesExactlyTheNew ==
    UpdateSucceeded
    => /\ \A e \in Endpoints : Cardinality(CreatesOf(e)) = Cardinality(NewEntriesOf(e))
       /\ Cardinality(CallsOf("CreateAllocation")) =
              Cardinality({k \in 1 .. Len(Desired) : ~HasIdentifier(Desired[k])})

\* the list the last GetNodeAllocations of a finished run returned
Refetched == calls[Len(calls)].res
\* the allocations list of the model written to state
FinalList == state.value.allocations

\* C11: after its deletions and creations Update re-fetches the allocations and
\* the list it writes to state is exactly that fetched list: same length,
\* same elements, same order, no extra or placeholder entry.
C11_FinalListIsRefetchedList ==
    UpdateSucceeded
    => /\ calls[Len(calls)].op = "GetNodeAllocations"
       /\ Len(FinalList) = Len(Refetched)
       /\ \A k \in 1 .. Len(Refetched) : FinalList[k] = AllocationModel(Refetched[k])

\* C12: with an empty desired list and an empty current list Update issues no
\* create call and no delete call and writes an empty allocations list.
C12_EmptyReconcileDoesNothing ==
    (UpdateSucceeded /\ Desired = <<>> /\ Current = <<>>)
    => /\ CallsOf("CreateAllocation") = {}
       /\ CallsOf("DeleteAllocation") = {}
       /\ FinalList = <<>>

\* C12 witness: a run over an empty plan and an empty panel listing came to its end
C12_Witness ==
    /\ UpdateSucceeded
    /\ Desired = <<>>
    /\ Current = <<>>
    /\ Len(calls) = 3
    /\ FinalList = <<>>

SomeNullID == \E k \in 1 .. Len(Desired) : Desired[k].id.st = "null"

FailedChanges ==
    {k \in CallsOf("DeleteAllocation") \cup CallsOf("CreateAllocation") : calls[k].err # NoErr}

\* C14: once a delete or create call has failed, the run is over: that call
\* is the last call made (no further delete or create, no final re-fetch),
\* one error is reported and no state is written.
C14_AbortsOnFirstFailure ==
    \A k \in FailedChanges :
        /\ k = Len(calls)
        /\ pc = "done"
        /\ Len(diags) = 1
        /\ ~state.set

\* C14 witness: a create call failed after a delete call had succeeded
C14_Witness ==
    /\ FailedChanges # {}
    /\ calls[Len(calls)].op = "CreateAllocation"
    /\ \E k \in CallsOf("DeleteAllocation") : calls[k].err = NoErr
    /\ pc = "done"

\* the delete loop of the run has gone through the whole current list
DeleteLoopOver == pc \in {"create", "refetch"} \/ UpdateSucceeded

\* C15: a desired entity without identifier is matched against no current
\* entity: once the delete loop is over, a delete call has been issued for
\* every current entity whose identifier no desired entity with an identifier
\* carries, identifier 0 included.
C15_NoIdentifierNeverMatches ==
    DeleteLoopOver
    => \A k \in 1 .. Len(Current) :
           (\A j \in 1 .. Len(Desired) :
                HasIdentifier(Desired[j]) => Desired[j].id.v # Current[k].id)
           => DeletesOf(Current[k].id) # {}

\* the run has fetched the current list
CurrentFetched == Len(calls) >= 2 /\ calls[2].err = NoErr
\* desired entity j has an identifier, and it is the one of current entity k
Matched(j, k) == HasIdentifier(Desired[j]) /\ Desired[j].id.v = Current[k].id
\* desired entity j asks for another ip or port than current entity k has
Differs(j, k) ==
    \/ Desired[j].ip # StringValue(Current[k].ip)
    \/ Desired[j].port # Int32Value(Current[k].port)
\* the client operations Update is known to use
UpdateOps == {"UpdateNode", "GetNodeAllocations", "DeleteAllocation", "CreateAllocation"}

\* C16: for a desired entity whose identifier is that of a current entity, be
\* its ip and port the same or not, no delete call is issued for that
\* identifier, no create call is issued for its ip and port beyond those of the
\* desired entities without identifier, the run makes no call of another
\* kind, and the panel still lists the current entity as it was fetched.
C16_NoUpdateInPlace ==
    CurrentFetched
    => \A j \in 1 .. Len(Desired), k \in 1 .. Len(Current) :
           Matched(j, k)
           => /\ DeletesOf(Current[k].id) = {}
              /\ LET e == [ip |-> Desired[j].ip.v, port |-> Desired[j].port.v]
                 IN Cardinality(CreatesOf(e)) <= Cardinality(NewEntriesOf(e))
              /\ \A c \in 1 .. Len(calls) : calls[c].op \in UpdateOps
              /\ \E m \in 1 .. Len(allocations) : allocations[m] = Current[k]

\* C16 witness: a run came to its end with a desired entity that carries the
\* identifier of a current entity and another ip and port
C16_Witness ==
    /\ UpdateSucceeded
    /\ \E j \in 1 .. Len(Desired), k \in 1 .. Len(Current) :
           /\ Matched(j, k)
           /\ Differs(j, k)
           /\ \E m \in 1 .. Len(allocations) : allocations[m] = Current[k]

\* the delete and create calls of the run
Changes == CallsOf("DeleteAllocation") \cup CallsOf("CreateAllocation")

\* C17: the calls of a run are ordered: the fetch of the current list is the
\* call right after UpdateNode and precedes every delete and create call,
\* every delete call precedes every create call, and a second fetch is the
\* last call of the run, made after all delete and create calls, of which
\* none failed.
C17_CallsAreOrdered ==
    /\ \A k \in Changes \cup CallsOf("GetNodeAllocations") :
           k >= 2 /\ calls[2].op = "GetNodeAllocations"
    /\ \A d \in CallsOf("DeleteAllocation"), c \in CallsOf("CreateAllocation") : d < c
    /\ \A g \in CallsOf("GetNodeAllocations") :
           g > 2 => /\ g = Len(calls)
                    /\ pc = "done"
                    /\ \A k \in Changes : k < g /\ calls[k].err = NoErr
                    /\ \A k \in 1 .. Len(calls) :
                           (k > 2 /\ k < g) => k \in Changes

\* C17 witness: a run made a delete call, then a create call, then its
\* second fetch
C17_Witness ==
    /\ Len(calls) = 5
    /\ calls[2].op = "GetNodeAllocations"
    /\ calls[3].op = "DeleteAllocation"
    /\ calls[4].op = "CreateAllocation"
    /\ calls[5].op = "GetNodeAllocations"

\* ============================================ properties of list data sources
\* a Read of a list data source came to its end without error
ListRead == state.set /\ diags = <<>>
\* the allocations the panel keeps under node n, in listing order
AllocationsOfNode(n) == SelectSeq(allocations, LAMBDA a : a.node = n)

\* C18: a Read of the node allocations data source asks the panel for the
\* allocations of exactly the configured node id, and on success state holds
\* the allocations of that node, one entry each, in listing order.
C18_ReadsConfiguredNode ==
    (entity = "node_allocations" /\ Responded)
    => /\ Len(calls) = 1
       /\ calls[1].op = "GetNodeAllocations"
       /\ calls[1].arg = config.nodeid
       /\ ListRead
          => state.value.allocations =
                 [k \in 1 .. Len(AllocationsOfNode(config.nodeid)) |->
                     AllocationModel(AllocationsOfNode(config.nodeid)[k])]

\* the listed nodes whose location is l, in listing order, as state holds them
NodesOfLocation(l) ==
    LET nodes == SelectSeq(records, LAMBDA node : node.locationID = l)
    IN [k \in 1 .. Len(nodes) |-> LocatedNodeModel(nodes[k])]
\* all listed nodes, in listing order, as state holds them
AllNodes == [k \in 1 .. Len(records) |-> LocatedNodeModel(records[k])]

\* C19: a successful Read of the nodes data source with a non-zero
\* location_id configured writes exactly the listed nodes of that location,
\* in listing order, and with location_id unset it writes all listed nodes;
\* a successful Read of the nodes-by-location data source writes exactly the
\* listed nodes of its configured location, in listing order.
C19_FiltersByLocation ==
    ListRead
    => /\ (entity = "nodes" /\ ValueInt32(config.location_id) # 0)
          => state.value.nodes = NodesOfLocation(config.location_id.v)
       /\ (entity = "nodes" /\ IsNull(config.location_id))
          => state.value.nodes = AllNodes
       /\ entity = "nodes_location"
          => state.value.nodes = NodesOfLocation(config.location_id.v)

\* ============================================== properties of Configure
\* Configure has run on a configuration without unknown values
Configured == entity = "provider" /\ pc = "done" /\ UnknownErrors(config) = <<>>
\* the value a setting takes: the configuration's when it is not null, be it
\* empty, and the environment variable's otherwise
Effective(fromEnv, fromConfig) == IF fromConfig.st = "null" THEN fromEnv ELSE fromConfig.v
EffectiveHost == Effective(env.PTERODACTYL_HOST, config.host)
EffectiveApiKey == Effective(env.PTERODACTYL_API_KEY, config.api_key)

\* C20: host and api key each take the value of the configuration when it is
\* not null and of PTERODACTYL_HOST / PTERODACTYL_API_KEY otherwise,
\* independently of the other setting: an empty effective value, a configured
\* "" over a non-empty variable included, is reported as missing, and when
\* neither is empty the client is created with exactly the two effective values.
C20_ConfigOverridesEnv ==
    Configured
    => /\ (EffectiveHost = "") <=> (\E k \in 1 .. Len(diags) :
                                        diags[k] = AttributeError("host", "Missing Pterodactyl Panel Host"))
       /\ (EffectiveApiKey = "") <=> (\E k \in 1 .. Len(diags) :
                                          diags[k] = AttributeError("apiKey", "Missing Pterodactyl Panel API Key"))
       /\ (EffectiveHost # "" /\ EffectiveApiKey # "")
          => /\ Len(calls) = 1
             /\ calls[1].op = "NewClient"
             /\ calls[1].arg = <<EffectiveHost, EffectiveApiKey>>
             /\ providerData.set => /\ providerData.host = EffectiveHost
                                     /\ providerData.apiKey = EffectiveApiKey

\* C20 witness: the host comes from the configuration although the variable
\* is set to another value, the api key comes from the environment, and the
\* client was created
C20_Witness ==
    /\ Configured
    /\ providerData.set
    /\ ~IsNull(config.host)
    /\ env.PTERODACTYL_HOST \notin {"", config.host.v}
    /\ IsNull(config.api_key)
    /\ providerData.host = config.host.v
    /\ providerData.apiKey = env.PTERODACTYL_API_KEY

\* C20 witness of the empty override: a configured "" host was reported as
\* missing although the variable holds a host
C20_EmptyOverrideWitness ==
    /\ Configured
    /\ config.host = StringValue("")
    /\ env.PTERODACTYL_HOST # ""
    /\ ~providerData.set
    /\ diags # <<>>

\* Configure has run
ConfigureDone == entity = "provider" /\ pc = "done"
\* a setting is unknown in the configuration / empty after the precedence
\* has been applied
UnknownSetting(fromConfig) == fromConfig.st = "unknown"
EmptySetting(fromEnv, fromConfig) ==
    IF fromConfig.st = "known" THEN fromConfig.v = ""
    ELSE fromConfig.st = "null" /\ fromEnv = ""
HostOffends ==
    UnknownSetting(config.host) \/ EmptySetting(env.PTERODACTYL_HOST, config.host)
ApiKeyOffends ==
    UnknownSetting(config.api_key) \/ EmptySetting(env.PTERODACTYL_API_KEY, config.api_key)
\* some diagnostic carries one of the summaries
Reported(summaries) == \E k \in 1 .. Len(diags) : diags[k].summary \in summaries
HostErrors == {"Unknown Pterodactyl Panel Host", "Missing Pterodactyl Panel Host"}
ApiKeyErrors == {"Unknown Pterodactyl Panel API Key", "Missing Pterodactyl Panel API Key"}

\* C21 as claimed: a client is handed out only when neither setting is
\* unknown or empty; otherwise an error is reported for each setting that is
\* unknown or empty, NewClient is not called and no client is handed out.
C21_ErrorForEachOffendingSetting ==
    ConfigureDone
    => /\ providerData.set => (~HostOffends /\ ~ApiKeyOffends)
       /\ (HostOffends \/ ApiKeyOffends)
          => /\ ~providerData.set
             /\ calls = <<>>
             /\ HostOffends => Reported(HostErrors)
             /\ ApiKeyOffends => Reported(ApiKeyErrors)

\* some setting is unknown in the configuration
SomeUnknown == UnknownSetting(config.host) \/ UnknownSetting(config.api_key)

\* C21 amended: a client is handed out only when neither setting is unknown
\* or empty; otherwise NewClient is not called and no client is handed out,
\* and the errors are: one for each unknown setting when some setting is
\* unknown (an empty setting is then not reported), one for each empty
\* setting when none is unknown.
C21_ErrorsInTwoStages ==
    ConfigureDone
    => /\ providerData.set => (~HostOffends /\ ~ApiKeyOffends)
       /\ (HostOffends \/ ApiKeyOffends)
          => /\ ~providerData.set
             /\ calls = <<>>
             /\ IF SomeUnknown
                THEN /\ Reported({"Unknown Pterodactyl Panel Host"})
                        <=> UnknownSetting(config.host)
                     /\ Reported({"Unknown Pterodactyl Panel API Key"})
                        <=> UnknownSetting(config.api_key)
                     /\ ~Reported({"Missing Pterodactyl Panel Host",
                                   "Missing Pterodactyl Panel API Key"})
                ELSE /\ Reported({"Missing Pterodactyl Panel Host"}) <=> HostOffends
                     /\ Reported({"Missing Pterodactyl Panel API Key"}) <=> ApiKeyOffends
                     /\ ~Reported({"Unknown Pterodactyl Panel Host",
                                   "Unknown Pterodactyl Panel API Key"})

\* C21 witness: both settings were empty, none unknown, and Configure
\* reported both and handed out no client
C21_Witness ==
    /\ ConfigureDone
    /\ ~SomeUnknown
    /\ HostOffends
    /\ ApiKeyOffends
    /\ Len(diags) = 2
    /\ ~providerData.set

\* ============================= properties of Resolve: present and absent fields
\* positions in KeyOrder of the attributes that are present in the sense of a
\* non-zero id or a non-empty string
Present ==
    {k \in 1 .. Len(KeyOrder(entity)) :
        /\ config[KeyOrder(entity)[k]].st = "known"
        /\ config[KeyOrder(entity)[k]].v # (IF KeyOrder(entity)[k] = "id" THEN 0 ELSE "")}

\* C23: an identifying attribute set to 0 or to "" is handled as absent: a
\* Read whose attributes are all null, 0 or "" issues no client call and
\* writes no state, and any other Read issues its calls for the first
\* attribute, in the order of examination, that is neither null, 0 nor "".
C23_ZeroAndEmptyAreAbsent ==
    (entity \in Entities /\ Responded)
    => IF Present = {}
       THEN calls = <<>> /\ ~state.set
       ELSE LET f == KeyOrder(entity)[Min(Present)]
            IN /\ calls # <<>>
               /\ \A i \in 1 .. Len(calls) :
                      /\ calls[i].op = FetchOp(entity, f)
                      /\ calls[i].arg = FetchArg(entity, f)

\* ========================= properties of Reconcile: the node attribute update
\* the allocation calls of the run
AllocationCalls == Changes \cup CallsOf("GetNodeAllocations")
\* a run is under way or over
UpdateEntered == pc # "idle" /\ calls # <<>>
\* the run ended on an error
UpdateFailed == pc = "done" /\ diags # <<>>

\* C25: UpdateNode is the first call of Update and precedes every allocation
\* call; when it fails no allocation call is made and no state is written;
\* when it succeeds the panel's node carries the planned
\* name from then on, also when a later allocation call fails, in which case
\* no state is written.
C25_NodeUpdateComesFirst ==
    UpdateEntered
    => /\ calls[1].op = "UpdateNode"
       /\ \A k \in AllocationCalls : k > 1
       /\ calls[1].err # NoErr => (Len(calls) = 1 /\ UpdateFailed /\ ~state.set)
       /\ calls[1].err = NoErr
          => /\ nodeName = ValueString(plan.name)
             /\ UpdateFailed => ~state.set

\* C25 witness: UpdateNode changed the name of the node, a later create call
\* failed and no state was written
C25_Witness ==
    /\ UpdateFailed
    /\ Len(calls) > 2
    /\ calls[1].err = NoErr
    /\ calls[Len(calls)].op = "CreateAllocation"
    /\ nodeName = "b"
    /\ ~state.set

\* ============================================ properties of the resources
\* the last handler was h and it returned without error
Succeeded(h) == pc = h /\ diags = <<>>
\* the last handler was h and it reported an error
Failed(h) == pc = h /\ diags # <<>>

\* C22: after a successful Read of the node resource of part_004 the
\* allocations list of the state is the list GetNodeAllocations returned in
\* that Read: same length, same elements, same order.
C22_ReadOverwritesAllocations ==
    (entity = "node+allocations" /\ Succeeded("Read"))
    => state.value.allocations =
           [k \in 1 .. Len(calls[2].res) |-> AllocationModel(calls[2].res[k])]

\* the calls of the last handler that returned without error
OkCalls == {k \in 1 .. Len(calls) : calls[k].err = NoErr}
\* the panel lists the node that CreateNode returned
NodeRemains == \E j \in 1 .. Len(records) : records[j] = calls[1].res
\* the panel lists, under that node, the allocation that create call k asked for
AllocationRemains(k) ==
    \E j \in 1 .. Len(allocations) :
        <<allocations[j].node, allocations[j].ip, allocations[j].port>> = calls[k].arg

\* C24: a Create of a node resource in which CreateNode succeeded and a later
\* call failed (CreateAllocation, GetNodeAllocations, or UpdateNode for a
\* description that is not null) stops at that call, reports one error and
\* writes no state, makes no delete call, and leaves in the panel the node and
\* every allocation created before the failure.
C24_CreateHasNoRollback ==
    (/\ entity \in {"node", "node+allocations"}
     /\ Failed("Create")
     /\ calls[1].err = NoErr)
    => /\ Len(diags) = 1
       /\ ~state.set
       /\ OkCalls = 1 .. (Len(calls) - 1)
       /\ \A k \in 1 .. Len(calls) :
              calls[k].op \in {"CreateNode", "CreateAllocation", "GetNodeAllocations", "UpdateNode"}
       /\ NodeRemains
       /\ \A k \in OkCalls : calls[k].op = "CreateAllocation" => AllocationRemains(k)

\* C24 witness: the second CreateAllocation of a Create failed after the
\* node and a first allocation had been created
C24_Witness ==
    /\ entity = "node+allocations"
    /\ Failed("Create")
    /\ Len(calls) = 3
    /\ calls[2].op = "CreateAllocation"
    /\ calls[2].err = NoErr
    /\ calls[3].op = "CreateAllocation"
    /\ calls[3].err # NoErr
    /\ NodeRemains
    /\ AllocationRemains(2)

\* C24 witness for node_resource.go: UpdateNode failed after CreateNode
C24_DescriptionWitness ==
    /\ entity = "node"
    /\ Failed("Create")
    /\ Len(calls) = 2
    /\ calls[2].op = "UpdateNode"
    /\ NodeRemains

CRUD == {"Create", "Read", "Update", "Delete"}
\* the AddError summary a handler uses for a failure of a client method
ErrorSummary(h, op) ==
    IF h = "Read" THEN ReadError(entity)
    ELSE IF h = "Delete" THEN DeleteError(entity)
    ELSE IF op = UpdateOp(entity) THEN UpdateError(entity)
    ELSE CreateError(entity)
\* the last handler reported the error of its last call and nothing else
ReportedLastCall ==
    /\ OkCalls = 1 .. (Len(calls) - 1)
    /\ diags = <<Diag(ErrorSummary(pc, calls[Len(calls)].op), calls[Len(calls)].err)>>

\* C26: when a client call of Create, Read, Update or Delete of the user,
\* location or node resource fails, the handler reports that error alone,
\* makes no call after the failed one and writes no state: the state stored
\* before the handler ran is the state after it.
FailedCallEndsHandler ==
    (/\ entity \in {"user", "location", "node"}
     /\ pc' \in CRUD
     /\ SomeCallFailed')
    => /\ ReportedLastCall'
       /\ state' = state
C26_FailureLeavesStateAlone == [][FailedCallEndsHandler]_vars

\* C26 witness: an Update of a location with a state failed at UpdateLocation
C26_Witness ==
    /\ entity = "location"
    /\ Failed("Update")
    /\ state.set
    /\ calls[Len(calls)].op = "UpdateLocation"
    /\ calls[Len(calls)].err # NoErr

\* the id attribute of a state that is set
StateID(s) == s.value.id

\* C27: the id written to the state by Create is the id the Create call
\* returned; Read and Update leave the id of the state as it was; and every
\* client call of Read, Update and Delete is made on the id of the state the
\* handler started from.
IdentityStep ==
    /\ (/\ entity \in {"user", "location", "node"}
        /\ pc' = "Create"
        /\ diags' = <<>>)
       => (state'.set /\ StateID(state') = Int32Value(calls'[1].res.id))
    /\ (/\ entity \in {"user", "location", "node"}
        /\ pc' \in {"Read", "Update"}
        /\ state.set)
       => (state'.set /\ StateID(state') = StateID(state))
    /\ (/\ entity \in {"user", "location", "node"}
        /\ pc' \in {"Read", "Update", "Delete"}
        /\ state.set)
       => \A k \in 1 .. Len(calls') : calls'[k].arg = ValueInt32(StateID(state))
C27_IdentityIsStable == [][IdentityStep]_vars

\* C27 witness: a user created with the id the panel gave has been updated
\* under that id
C27_Witness ==
    /\ entity = "user"
    /\ Succeeded("Update")
    /\ StateID(state) = Int32Value(MaxID + 1)
    /\ calls[1].arg = MaxID + 1
    /\ \E j \in 1 .. Len(records) : records[j].id = MaxID + 1

\* ImportState of locationResource or of nodeResource (node_resource.go) ran
Imported == pc = "ImportState" /\ entity \in {"location", "node"}
\* the conversion of the import id failed
ConversionFailed ==
    (IF entity = "location" THEN ParseInt32(config.id)
     ELSE AtoiInt32(config.id, config.intSize)).err # NoErr
ConversionError == Diag("Error importing state", "Couldn't convert id to int")
\* the handler went on to the fetch, reporting the failed conversion for a
\* location and nothing of it for a node
WentOnToFetch ==
    /\ Len(calls) = 1
    /\ calls[1].op = GetOp(entity)
    /\ IF entity = "location" THEN Len(diags) >= 1 /\ diags[1] = ConversionError
       ELSE ConversionError \notin {diags[k] : k \in 1 .. Len(diags)}
\* a fetch that succeeded put the fetched record in the state
FetchedIsWritten ==
    calls[1].err = NoErr
    => /\ state.set
       /\ \E j \in 1 .. Len(records) :
              /\ records[j].id = calls[1].arg
              /\ state.value =
                     ResourceModel(records[j].id, StringValue(records[j].attr), <<>>)

IDAfterFailedConversion ==
    IF ~IsNumeral(config.id) THEN 0
    ELSE IF entity = "location" \/ config.intSize = 32 THEN MaxInt32
    ELSE -1

C28_RangeWitness ==
    /\ Imported
    /\ entity = "node"
    /\ ConversionFailed
    /\ calls[1].arg = -1

====
